---- MODULE Spec2Model ----
(***************************************************************************)
(* Model of the realtime engine of chime: src/server/socket/socketHandler.js *)
(* (session registry, room subscription, typing indicators, message and    *)
(* reaction fan-out) together with the storage tables of                   *)
(* src/database/schema.sql that its handlers read and write, and the       *)
(* PUT /status route of src/server/routes/users.js.                        *)
(*                                                                         *)
(* Concurrency model.  Node runs every handler to its next `await` without *)
(* interleaving; a handler is suspended exactly at its executeQuery calls. *)
(* Each action below is therefore either the synchronous prefix of a       *)
(* handler (up to its first await) or one storage round-trip together with *)
(* the continuation that runs when it returns (up to the next await).      *)
(* Round-trips of different handlers complete in any order, and every      *)
(* round-trip may fail (executeQuery rethrows the driver's error).         *)
(*                                                                         *)
(* socket.io is modelled by what the handlers rely on: nsp.sockets is the  *)
(* set of connected sockets, socket.join/leave add/remove the socket id in *)
(* the adapter's room table whatever the socket's connection state, a      *)
(* closing socket leaves all its rooms before its 'disconnect' handler     *)
(* runs, and an emit reaches only sockets that are still connected.        *)
(***************************************************************************)
EXTENDS Integers, FiniteSets, Sequences, TLC

\* ------------------------------------------------------------------ bounds

\* Number of client events (connect, disconnect, join_room, ...) in a run.
MaxEvents == 3

\* Number of client events in a run of SpecReactions.
MaxReactionEvents == 4

\* Number of client events in a run of SpecSweep.
MaxSweepEvents == 5

\* Last instant of the clock, in seconds.
MaxClock == 60

\* ------------------------------------------------------- program constants

\* DATE_SUB(NOW(), INTERVAL 30 SECOND)
TypingTTL == 30

\* setInterval(..., 30000), in seconds
SweepInterval == 30

\* content.length > 2000
MaxContentLength == 2000

\* message_reactions.emoji VARCHAR(10)
MaxEmojiLength == 10

\* ------------------------------------------------------------ input domains

Users == {"A", "B"}

\* Connection attempts: a socket id is used by one connection only.
Sockets == {"a1", "a2", "b1"}

\* Connection attempts that the handshake must refuse: n1 sends no token, e1
\* an expired or malformed one, g1 a token of a user id without a users row,
\* c1 the token of a banned user.
Intruders == {"n1", "e1", "g1", "c1"}

\* users rows with is_banned = TRUE.
BannedUsers == {"C"}

\* socket.handshake.auth.token of each connection attempt: whether it is
\* there and jwt.verify accepts it, and the userId it decodes to.
Credential(s) ==
    CASE s \in {"a1", "a2"} -> [token |-> "valid", userId |-> "A"]
      [] s = "b1" -> [token |-> "valid", userId |-> "B"]
      [] s = "c1" -> [token |-> "valid", userId |-> "C"]
      [] s = "g1" -> [token |-> "valid", userId |-> "G"]
      [] s = "e1" -> [token |-> "expired", userId |-> "A"]
      [] OTHER -> [token |-> "missing", userId |-> ""]

\* The identity the credential of each connection attempt resolves to
\* (socket.userId = decoded.userId).
TokenUser(s) == Credential(s).userId

\* users.display_name
DisplayName(u) == IF u = "A" THEN "Ann" ELSE "Bob"

\* Room ids a client may name; room 3 has no chat_rooms row.
RoomIds == {1, 2, 3}

\* chat_rooms rows (id -> type), all with is_active = TRUE.
chat_rooms == [r \in {1, 2} |-> IF r = 1 THEN "public" ELSE "group"]

\* room_members rows <<room_id, user_id>>.  No handler or route of the
\* repository inserts or deletes a row of an existing room.
room_members == {<<2, "A">>}

\* Message contents a client may send: text and its length.
Contents == {[text |-> "", len |-> 0],
             [text |-> "hello", len |-> 5],
             [text |-> "full", len |-> 2000],
             [text |-> "huge", len |-> 2001]}

Emojis == {"thumbs"}

\* Every emoji string a client may put in add_reaction: also the empty string
\* and one of eleven characters.
EmojiInputs == Emojis \cup {"", "elevenchars"}

EmojiLen(e) == CASE e = "" -> 0 [] e = "elevenchars" -> 11 [] OTHER -> 6

\* What a VARCHAR(10) column keeps of a value when the server is not in
\* strict mode: its first ten characters.
EmojiStored(e) == IF e = "elevenchars" THEN "elevenchar" ELSE e

\* Message ids a client may name in a reaction; 999 has no row.
MessageIds == {101, 999}

\* users.status ENUM('online', 'away', 'busy', 'offline'), the values the
\* status route accepts.
Statuses == {"online", "away", "busy", "offline"}

\* Values a client may put in the body of PUT /status.
StatusInputs == Statuses \cup {"invisible"}

\* Seconds the clock advances in one step.
Delays == {10}

\* ------------------------------------------------------------------- state

VARIABLES
    sockets,        \* io.sockets: ids of the connected sockets
    closed,         \* ids of the sockets that have disconnected
    refused,        \* ids of the connection attempts the handshake refused
    activeUsers,    \* Map userId -> socketId
    userSockets,    \* Map socketId -> userId
    typingUsers,    \* Map roomId -> Set of userIds
    rooms,          \* adapter room table: room name -> set of socket ids
    users_status,   \* users.status
    messages,       \* messages rows
    message_reactions, \* message_reactions rows <<message_id, user_id, emoji>>
    typing_indicators, \* typing_indicators rows: <<user_id, room_id>> -> started_at
    nextInsertId,   \* AUTO_INCREMENT of messages
    friends,        \* friends rows
    nextFriendId,   \* AUTO_INCREMENT of friends
    tasks,          \* handlers suspended at an await
    emitted,        \* events (and HTTP responses) delivered by the last step
    typingSince,    \* ghost: time of the typing_start behind each in-memory entry
    now,            \* clock, seconds
    nextSweep,      \* instant of the next cleanup timer
    eventsLeft,     \* client events the run may still issue
    storageFaulty   \* environment: whether storage round-trips may fail

vars == <<sockets, closed, refused, activeUsers, userSockets, typingUsers, rooms,
          users_status, messages, message_reactions, typing_indicators,
          nextInsertId, friends, nextFriendId, tasks, emitted, typingSince, now,
          nextSweep, eventsLeft, storageFaulty>>

memVars == <<activeUsers, userSockets, typingUsers, typingSince>>
dbVars == <<users_status, messages, message_reactions, typing_indicators, nextInsertId>>
timeVars == <<now, nextSweep>>

\* Outcomes of a storage round-trip: TRUE when executeQuery resolves, FALSE
\* when it throws.
QueryOutcomes == IF storageFaulty THEN BOOLEAN ELSE {TRUE}

\* ------------------------------------------------------------- room names

RoomName(r) == <<"room", r>>
UserRoom(u) == <<"user", u>>
PublicGeneral == <<"public_general", 0>>

RoomNames == {RoomName(r) : r \in RoomIds} \cup {UserRoom(u) : u \in Users}
             \cup {PublicGeneral}

\* ------------------------------------------------------------------ events

Ev(to, ev, user, room, data) ==
    [to |-> to, ev |-> ev, user |-> user, room |-> room, data |-> data]

\* socket.emit(ev, ...): to the socket itself, dropped when it is closed.
SocketEmit(s, ev, user, room, data) ==
    IF s \in sockets THEN {Ev(s, ev, user, room, data)} ELSE {}

\* io.emit(ev, ...) in place of io.to(room).emit(ev, ...).
IoToEmit_Everyone(name, ev, user, room, data) ==
    {Ev(c, ev, user, room, data) : c \in sockets}

\* io.to(room).emit(ev, ...): every connected socket of the room.
IoToEmit(name, ev, user, room, data) ==
    {Ev(c, ev, user, room, data) : c \in rooms[name] \cap sockets}

\* socket.to(room).emit(ev, ...): every connected socket of the room but s.
SocketToEmit(s, name, ev, user, room, data) ==
    {Ev(c, ev, user, room, data) : c \in (rooms[name] \cap sockets) \ {s}}

\* socket.broadcast.emit(ev, ...): every connected socket but s.
BroadcastEmit(s, ev, user, data) ==
    {Ev(c, ev, user, 0, data) : c \in sockets \ {s}}

\* ------------------------------------------------------------------- tasks

\* A handler suspended at an await: the socket it runs for, the event it
\* handles, the round-trip it waits for, and its locals.
Task(s, ev, pc, room, msg, data) ==
    [sock |-> s, ev |-> ev, pc |-> pc, room |-> room, msg |-> msg, data |-> data]

\* At most one handler per socket and event kind is in flight at a time.
Idle(s, ev) == \A t \in tasks : ~(t.sock = s /\ t.ev = ev)

Replace(t, u) == (tasks \ {t}) \cup {u}

CanIssue(s) == s \in sockets /\ eventsLeft > 0

\* ----------------------------------------------------------------- storage

\* SELECT type FROM chat_rooms WHERE id = ? AND is_active = TRUE
SelectRoomType(r) == IF r \in DOMAIN chat_rooms THEN {chat_rooms[r]} ELSE {}

\* SELECT 1 FROM room_members WHERE room_id = ? AND user_id = ?
SelectMember(r, u) == {m \in room_members : m = <<r, u>>}

\* SELECT rm.room_id FROM room_members rm JOIN chat_rooms cr ...
\* WHERE rm.user_id = ? AND cr.is_active = TRUE
SelectUserRooms(u) ==
    {m[1] : m \in {x \in room_members : x[2] = u /\ x[1] \in DOMAIN chat_rooms}}

\* ------------------------------------------------------------------ Init

\* new Map()
EmptyMap == [x \in {} |-> 0]

InitState ==
    /\ sockets = {}
    /\ closed = {}
    /\ refused = {}
    /\ activeUsers = EmptyMap
    /\ userSockets = EmptyMap
    /\ typingUsers = EmptyMap
    /\ rooms = [n \in RoomNames |-> {}]
    /\ users_status = [u \in Users |-> "offline"]
    /\ messages = {[id |-> 101, room_id |-> 2, user_id |-> "A", content |-> "hi"]}
    /\ message_reactions = {}
    /\ typing_indicators = EmptyMap
    /\ nextInsertId = 102
    /\ friends = {}
    /\ nextFriendId = 1
    /\ tasks = {}
    /\ emitted = {}
    /\ typingSince = EmptyMap
    /\ now = 0
    /\ nextSweep = SweepInterval

\* ----------------------------------------------------- maps (JS Map, Set)

MapSet(m, k, v) == [x \in DOMAIN m \cup {k} |-> IF x = k THEN v ELSE m[x]]
MapDelete(m, k) == [x \in DOMAIN m \ {k} |-> m[x]]
MapHas(m, k) == k \in DOMAIN m

\* adapter.addAll(id, rooms) / adapter.del(id, room) / adapter.delAll(id)
RoomsAdd(tbl, s, names) ==
    [n \in RoomNames |-> IF n \in names THEN tbl[n] \cup {s} ELSE tbl[n]]
RoomsDel(tbl, s, name) ==
    [n \in RoomNames |-> IF n = name THEN tbl[n] \ {s} ELSE tbl[n]]
RoomsDelAll(tbl, s) == [n \in RoomNames |-> tbl[n] \ {s}]

\* -------------------------------------------------------------- connection

\* SELECT id, ..., is_banned FROM users WHERE id = ?
SelectUser(u) ==
    IF u \in Users \cup BannedUsers
    THEN {[id |-> u, is_banned |-> u \in BannedUsers]}
    ELSE {}

\* authenticateSocket: "ok" when it calls next(), else the message of the
\* Error it passes to next; ok is the outcome of its users read.
Authenticate(s, ok) ==
    IF Credential(s).token = "missing" THEN "Authentication error"
    ELSE IF Credential(s).token # "valid" THEN "Authentication error"
    ELSE IF ~ok THEN "Authentication error"
    ELSE IF SelectUser(Credential(s).userId) = {} THEN "User not found"
    ELSE IF \E u \in SelectUser(Credential(s).userId) : u.is_banned THEN "Account suspended"
    ELSE "ok"

\* The handshake ends with next(new Error(...)): the connection is refused
\* and io.on('connection') never runs for it.
Refuse(s) ==
    /\ s \notin sockets \cup closed \cup refused
    /\ eventsLeft > 0
    /\ \E ok \in QueryOutcomes : Authenticate(s, ok) # "ok"
    /\ refused' = refused \cup {s}
    /\ emitted' = {}
    /\ eventsLeft' = eventsLeft - 1
    /\ UNCHANGED <<storageFaulty, friends, nextFriendId, sockets, closed, memVars, rooms, dbVars, tasks, timeVars>>

\* The connection handler run for every connection attempt.
Connect_NoAuth(s) ==
    /\ s \notin sockets \cup closed \cup refused
    /\ eventsLeft > 0
    /\ LET u == TokenUser(s) IN
        /\ sockets' = sockets \cup {s}
        /\ activeUsers' = MapSet(activeUsers, u, s)
        /\ userSockets' = MapSet(userSockets, s, u)
        /\ rooms' = RoomsAdd(rooms, s, {UserRoom(u), PublicGeneral})
        /\ tasks' = tasks \cup {Task(s, "connect_status", "update", 0, 0, 0),
                                Task(s, "connect_rooms", "select", 0, 0, 0)}
        /\ emitted' = BroadcastEmit(s, "user_online", u, 0)
    /\ eventsLeft' = eventsLeft - 1
    /\ UNCHANGED <<storageFaulty, friends, nextFriendId, refused, closed, typingUsers, typingSince, dbVars, timeVars>>

\* A handshake that authenticateSocket lets through (io.use), then
\* io.on('connection'): the synchronous part of the connection handler.  The
\* handshake changes no state before its users read returns, so the read's
\* return and the handler are one step.  The three executeQuery calls of the
\* handler are issued without await: the status update and the membership
\* read stay in flight as tasks.
Connect(s) ==
    /\ s \notin sockets \cup closed \cup refused
    /\ Authenticate(s, TRUE) = "ok"
    /\ eventsLeft > 0
    /\ LET u == TokenUser(s) IN
        /\ sockets' = sockets \cup {s}
        /\ activeUsers' = MapSet(activeUsers, u, s)
        /\ userSockets' = MapSet(userSockets, s, u)
        /\ rooms' = RoomsAdd(rooms, s, {UserRoom(u), PublicGeneral})
        /\ tasks' = tasks \cup {Task(s, "connect_status", "update", 0, 0, 0),
                                Task(s, "connect_rooms", "select", 0, 0, 0)}
        /\ emitted' = BroadcastEmit(s, "user_online", u, 0)
    /\ eventsLeft' = eventsLeft - 1
    /\ UNCHANGED <<storageFaulty, friends, nextFriendId, refused, closed, typingUsers, typingSince, dbVars, timeVars>>

\* UPDATE users SET status = "online" ... (not awaited, errors unhandled)
ConnectStatus(t) ==
    /\ t \in tasks /\ t.ev = "connect_status"
    /\ \E ok \in QueryOutcomes :
        users_status' = IF ok THEN [users_status EXCEPT ![TokenUser(t.sock)] = "online"]
                        ELSE users_status
    /\ tasks' = tasks \ {t}
    /\ emitted' = {}
    /\ UNCHANGED <<storageFaulty, friends, nextFriendId, refused, sockets, closed, memVars, rooms, messages, message_reactions,
                   typing_indicators, nextInsertId, timeVars, eventsLeft>>

\* An auto-join that subscribes the connection to every active room instead
\* of the rooms of the membership rows.
ConnectRooms_EveryRoom(t) ==
    /\ t \in tasks /\ t.ev = "connect_rooms"
    /\ \E ok \in QueryOutcomes :
        rooms' = IF ok
                 THEN RoomsAdd(rooms, t.sock, {RoomName(r) : r \in DOMAIN chat_rooms})
                 ELSE rooms
    /\ tasks' = tasks \ {t}
    /\ emitted' = {}
    /\ UNCHANGED <<storageFaulty, friends, nextFriendId, refused, sockets, closed, memVars, dbVars, timeVars, eventsLeft>>

\* The membership read and its .then: socket.join(`room_${room.room_id}`)
\* for each row; .catch only logs.
ConnectRooms(t) ==
    /\ t \in tasks /\ t.ev = "connect_rooms"
    /\ \E ok \in QueryOutcomes :
        rooms' = IF ok
                 THEN RoomsAdd(rooms, t.sock,
                               {RoomName(r) : r \in SelectUserRooms(TokenUser(t.sock))})
                 ELSE rooms
    /\ tasks' = tasks \ {t}
    /\ emitted' = {}
    /\ UNCHANGED <<storageFaulty, friends, nextFriendId, refused, sockets, closed, memVars, dbVars, timeVars, eventsLeft>>

\* Typing cleanup of the disconnect handler: users.delete(userId) in every
\* room, and the room's key deleted when its set becomes empty.
TypingForget(tu, u) ==
    LET cleaned == [r \in DOMAIN tu |-> tu[r] \ {u}] IN
    [r \in {k \in DOMAIN cleaned : cleaned[k] # {}} |-> cleaned[r]]

\* A disconnect handler that awaits its status write before the typing
\* cleanup: the typing table is untouched by its synchronous part.
Disconnect_KeepTyping(s) ==
    /\ CanIssue(s)
    /\ LET u == TokenUser(s) IN
        /\ sockets' = sockets \ {s}
        /\ closed' = closed \cup {s}
        /\ rooms' = RoomsDelAll(rooms, s)
        /\ activeUsers' = MapDelete(activeUsers, u)
        /\ userSockets' = MapDelete(userSockets, s)
        /\ tasks' = tasks \cup {Task(s, "disconnect", "update", 0, 0, 0)}
    /\ emitted' = {}
    /\ eventsLeft' = eventsLeft - 1
    /\ UNCHANGED <<storageFaulty, friends, nextFriendId, refused, typingUsers, typingSince, dbVars, timeVars>>

\* Transport close: socket.io takes the socket out of all its rooms and of
\* io.sockets, then runs the 'disconnect' handler up to its first await.
Disconnect(s) ==
    /\ CanIssue(s)
    /\ LET u == TokenUser(s) IN
        /\ sockets' = sockets \ {s}
        /\ closed' = closed \cup {s}
        /\ rooms' = RoomsDelAll(rooms, s)
        /\ activeUsers' = MapDelete(activeUsers, u)
        /\ userSockets' = MapDelete(userSockets, s)
        /\ typingUsers' = TypingForget(typingUsers, u)
        /\ typingSince' = [p \in {q \in DOMAIN typingSince : q[2] # u} |-> typingSince[p]]
        /\ tasks' = tasks \cup {Task(s, "disconnect", "update", 0, 0, 0)}
    /\ emitted' = {}
    /\ eventsLeft' = eventsLeft - 1
    /\ UNCHANGED <<storageFaulty, friends, nextFriendId, refused, dbVars, timeVars>>

\* await UPDATE users SET status = "offline" ...; a rejection ends the
\* handler (it has no try/catch).
DisconnectStatus(t) ==
    /\ t \in tasks /\ t.ev = "disconnect" /\ t.pc = "update"
    /\ \E ok \in QueryOutcomes :
        IF ok
        THEN /\ users_status' = [users_status EXCEPT ![TokenUser(t.sock)] = "offline"]
             /\ tasks' = Replace(t, [t EXCEPT !.pc = "activity"])
        ELSE /\ users_status' = users_status
             /\ tasks' = tasks \ {t}
    /\ emitted' = {}
    /\ UNCHANGED <<storageFaulty, friends, nextFriendId, refused, sockets, closed, memVars, rooms, messages, message_reactions,
                   typing_indicators, nextInsertId, timeVars, eventsLeft>>

\* await INSERT INTO user_activity ...; then socket.broadcast.emit('user_offline').
DisconnectActivity(t) ==
    /\ t \in tasks /\ t.ev = "disconnect" /\ t.pc = "activity"
    /\ \E ok \in QueryOutcomes :
        emitted' = IF ok THEN BroadcastEmit(t.sock, "user_offline", TokenUser(t.sock), 0)
                   ELSE {}
    /\ tasks' = tasks \ {t}
    /\ UNCHANGED <<storageFaulty, friends, nextFriendId, refused, sockets, closed, memVars, rooms, dbVars, timeVars, eventsLeft>>

\* ------------------------------------------------------------------ rooms

\* socket.join(`room_${roomId}`); socket.emit('joined_room');
\* socket.to(`room_${roomId}`).emit('user_joined_room')
DoJoin(t) ==
    /\ rooms' = RoomsAdd(rooms, t.sock, {RoomName(t.room)})
    /\ emitted' = SocketEmit(t.sock, "joined_room", TokenUser(t.sock), t.room, 0)
                  \cup SocketToEmit(t.sock, RoomName(t.room), "user_joined_room",
                                    TokenUser(t.sock), t.room, 0)
    /\ tasks' = tasks \ {t}

\* End of a handler with socket.emit('error', { message }).
FailWith(t, message) ==
    /\ emitted' = SocketEmit(t.sock, "error", TokenUser(t.sock), 0, message)
    /\ tasks' = tasks \ {t}

\* socket.on('join_room'): up to the first await.
JoinRoom(s, r) ==
    /\ CanIssue(s) /\ Idle(s, "join_room")
    /\ tasks' = tasks \cup {Task(s, "join_room", "room", r, 0, 0)}
    /\ emitted' = {}
    /\ eventsLeft' = eventsLeft - 1
    /\ UNCHANGED <<storageFaulty, friends, nextFriendId, refused, sockets, closed, memVars, rooms, dbVars, timeVars>>

\* The chat_rooms read of join_room and what follows it.
JoinRoomType(t) ==
    /\ t \in tasks /\ t.ev = "join_room" /\ t.pc = "room"
    /\ \E ok \in QueryOutcomes :
        IF ~ok THEN FailWith(t, "Failed to join room") /\ rooms' = rooms
        ELSE IF SelectRoomType(t.room) = {}
        THEN FailWith(t, "Room not found") /\ rooms' = rooms
        ELSE IF SelectRoomType(t.room) \subseteq {"private", "group"}
        THEN /\ tasks' = Replace(t, [t EXCEPT !.pc = "member"])
             /\ emitted' = {}
             /\ rooms' = rooms
        ELSE DoJoin(t)
    /\ UNCHANGED <<storageFaulty, friends, nextFriendId, refused, sockets, closed, memVars, dbVars, timeVars, eventsLeft>>

\* join_room without the membership test.
JoinRoomMember_NoCheck(t) ==
    /\ t \in tasks /\ t.ev = "join_room" /\ t.pc = "member"
    /\ \E ok \in QueryOutcomes :
        IF ~ok THEN FailWith(t, "Failed to join room") /\ rooms' = rooms
        ELSE DoJoin(t)
    /\ UNCHANGED <<storageFaulty, friends, nextFriendId, refused, sockets, closed, memVars, dbVars, timeVars, eventsLeft>>

\* The room_members read of join_room and what follows it.
JoinRoomMember(t) ==
    /\ t \in tasks /\ t.ev = "join_room" /\ t.pc = "member"
    /\ \E ok \in QueryOutcomes :
        IF ~ok THEN FailWith(t, "Failed to join room") /\ rooms' = rooms
        ELSE IF SelectMember(t.room, TokenUser(t.sock)) = {}
        THEN FailWith(t, "Access denied") /\ rooms' = rooms
        ELSE DoJoin(t)
    /\ UNCHANGED <<storageFaulty, friends, nextFriendId, refused, sockets, closed, memVars, dbVars, timeVars, eventsLeft>>

\* socket.on('leave_room'): synchronous.
LeaveRoom(s, r) ==
    /\ CanIssue(s)
    /\ rooms' = RoomsDel(rooms, s, RoomName(r))
    /\ emitted' = SocketToEmit(s, RoomName(r), "user_left_room", TokenUser(s), r, 0)
    /\ eventsLeft' = eventsLeft - 1
    /\ UNCHANGED <<storageFaulty, friends, nextFriendId, refused, sockets, closed, memVars, dbVars, tasks, timeVars>>

\* --------------------------------------------------------------- messages

\* SELECT m.*, u.username, ... FROM messages m ... WHERE m.id = ?
SelectMessage(id) == {m \in messages : m.id = id}

\* send_message without the content validation.
SendMessage_NoValidation(s, r, c) ==
    /\ CanIssue(s) /\ Idle(s, "send_message")
    /\ emitted' = {}
    /\ tasks' = tasks \cup {Task(s, "send_message", "room", r, 0, c.text)}
    /\ eventsLeft' = eventsLeft - 1
    /\ UNCHANGED <<storageFaulty, friends, nextFriendId, refused, sockets, closed, memVars, rooms, dbVars, timeVars>>

\* socket.on('send_message'): content validation, up to the first await.
SendMessage(s, r, c) ==
    /\ CanIssue(s) /\ Idle(s, "send_message")
    /\ IF c.len = 0 \/ c.len > MaxContentLength
       THEN /\ emitted' = SocketEmit(s, "error", TokenUser(s), 0, "Invalid message content")
            /\ tasks' = tasks
       ELSE /\ emitted' = {}
            /\ tasks' = tasks \cup {Task(s, "send_message", "room", r, 0, c.text)}
    /\ eventsLeft' = eventsLeft - 1
    /\ UNCHANGED <<storageFaulty, friends, nextFriendId, refused, sockets, closed, memVars, rooms, dbVars, timeVars>>

\* The chat_rooms read of send_message.
SendRoomType(t) ==
    /\ t \in tasks /\ t.ev = "send_message" /\ t.pc = "room"
    /\ \E ok \in QueryOutcomes :
        IF ~ok THEN FailWith(t, "Failed to send message")
        ELSE IF SelectRoomType(t.room) = {}
        THEN FailWith(t, "Room not found")
        ELSE /\ tasks' = Replace(t, [t EXCEPT !.pc =
                    IF SelectRoomType(t.room) \subseteq {"private", "group"}
                    THEN "member" ELSE "insert"])
             /\ emitted' = {}
    /\ UNCHANGED <<storageFaulty, friends, nextFriendId, refused, sockets, closed, memVars, rooms, dbVars, timeVars, eventsLeft>>

\* The room_members read of send_message.
SendMember(t) ==
    /\ t \in tasks /\ t.ev = "send_message" /\ t.pc = "member"
    /\ \E ok \in QueryOutcomes :
        IF ~ok THEN FailWith(t, "Failed to send message")
        ELSE IF SelectMember(t.room, TokenUser(t.sock)) = {}
        THEN FailWith(t, "Access denied")
        ELSE /\ tasks' = Replace(t, [t EXCEPT !.pc = "insert"])
             /\ emitted' = {}
    /\ UNCHANGED <<storageFaulty, friends, nextFriendId, refused, sockets, closed, memVars, rooms, dbVars, timeVars, eventsLeft>>

\* INSERT INTO messages ...; messageId = result.insertId
SendInsert(t) ==
    /\ t \in tasks /\ t.ev = "send_message" /\ t.pc = "insert"
    /\ \E ok \in QueryOutcomes :
        IF ok
        THEN /\ messages' = messages \cup
                    {[id |-> nextInsertId, room_id |-> t.room,
                      user_id |-> TokenUser(t.sock), content |-> t.data]}
             /\ nextInsertId' = nextInsertId + 1
             /\ tasks' = Replace(t, [t EXCEPT !.pc = "select", !.msg = nextInsertId])
             /\ emitted' = {}
        ELSE /\ FailWith(t, "Failed to send message")
             /\ UNCHANGED <<storageFaulty, friends, nextFriendId, refused, messages, nextInsertId>>
    /\ UNCHANGED <<storageFaulty, friends, nextFriendId, refused, sockets, closed, memVars, rooms, users_status, message_reactions,
                   typing_indicators, timeVars, eventsLeft>>

\* socket.to(room).emit('new_message') in place of io.to(room).emit.
SendSelect_SkipSender(t) ==
    /\ t \in tasks /\ t.ev = "send_message" /\ t.pc = "select"
    /\ \E ok \in QueryOutcomes :
        IF ok /\ SelectMessage(t.msg) # {}
        THEN /\ emitted' = UNION {SocketToEmit(t.sock, RoomName(t.room), "new_message",
                                               m.user_id, t.room, m) : m \in SelectMessage(t.msg)}
             /\ tasks' = Replace(t, [t EXCEPT !.pc = "activity"])
        ELSE FailWith(t, "Failed to send message")
    /\ UNCHANGED <<storageFaulty, friends, nextFriendId, refused, sockets, closed, memVars, rooms, dbVars, timeVars, eventsLeft>>

\* The re-read of the created message, io.to(`room_${roomId}`).emit('new_message'),
\* up to the await of the activity insert.  messages[0] of an empty result is
\* undefined and `message.reactions = []` throws into the catch.
SendSelect(t) ==
    /\ t \in tasks /\ t.ev = "send_message" /\ t.pc = "select"
    /\ \E ok \in QueryOutcomes :
        IF ok /\ SelectMessage(t.msg) # {}
        THEN /\ emitted' = UNION {IoToEmit(RoomName(t.room), "new_message",
                                           m.user_id, t.room, m) : m \in SelectMessage(t.msg)}
             /\ tasks' = Replace(t, [t EXCEPT !.pc = "activity"])
        ELSE FailWith(t, "Failed to send message")
    /\ UNCHANGED <<storageFaulty, friends, nextFriendId, refused, sockets, closed, memVars, rooms, dbVars, timeVars, eventsLeft>>

\* INSERT INTO user_activity (user_id, action, details, ip_address) VALUES (?, ?, ?)
\* names four columns and three values: the statement is always rejected and
\* the catch emits the error.
SendActivity(t) ==
    /\ t \in tasks /\ t.ev = "send_message" /\ t.pc = "activity"
    /\ FailWith(t, "Failed to send message")
    /\ UNCHANGED <<storageFaulty, friends, nextFriendId, refused, sockets, closed, memVars, rooms, dbVars, timeVars, eventsLeft>>

\* ----------------------------------------------------------------- typing

\* FOREIGN KEY (room_id) REFERENCES chat_rooms(id)
RoomExists(r) == r \in DOMAIN chat_rooms

\* typingUsers.get(roomId).add(userId), creating the set when missing
TypingAdd(tu, r, u) == MapSet(tu, r, (IF MapHas(tu, r) THEN tu[r] ELSE {}) \cup {u})

\* typingUsers.get(roomId).delete(userId) when the room has a set
TypingRemove(tu, r, u) == IF MapHas(tu, r) THEN MapSet(tu, r, tu[r] \ {u}) ELSE tu

\* socket.on('typing_start'): up to the first await.
TypingStart(s, r) ==
    /\ CanIssue(s) /\ Idle(s, "typing_start")
    /\ tasks' = tasks \cup {Task(s, "typing_start", "upsert", r, 0, 0)}
    /\ emitted' = {}
    /\ eventsLeft' = eventsLeft - 1
    /\ UNCHANGED <<storageFaulty, friends, nextFriendId, refused, sockets, closed, memVars, rooms, dbVars, timeVars>>

\* A typing_start whose statement is INSERT IGNORE: an existing row keeps
\* its started_at.
TypingStartUpsert_NoRefresh(t) ==
    /\ t \in tasks /\ t.ev = "typing_start"
    /\ LET u == TokenUser(t.sock) IN
       \E ok \in QueryOutcomes :
        IF ok /\ RoomExists(t.room)
        THEN /\ typing_indicators' =
                    IF MapHas(typing_indicators, <<u, t.room>>) THEN typing_indicators
                    ELSE MapSet(typing_indicators, <<u, t.room>>, now)
             /\ typingUsers' = TypingAdd(typingUsers, t.room, u)
             /\ typingSince' = MapSet(typingSince, <<t.room, u>>, now)
             /\ emitted' = SocketToEmit(t.sock, RoomName(t.room), "user_typing", u, t.room, 0)
        ELSE /\ emitted' = {}
             /\ UNCHANGED <<storageFaulty, friends, nextFriendId, refused, typing_indicators, typingUsers, typingSince>>
    /\ tasks' = tasks \ {t}
    /\ UNCHANGED <<storageFaulty, friends, nextFriendId, refused, sockets, closed, activeUsers, userSockets, rooms, users_status,
                   messages, message_reactions, nextInsertId, timeVars, eventsLeft>>

\* INSERT INTO typing_indicators ... ON DUPLICATE KEY UPDATE started_at = now,
\* then the local set and socket.to(room).emit('user_typing'); the catch logs.
TypingStartUpsert(t) ==
    /\ t \in tasks /\ t.ev = "typing_start"
    /\ LET u == TokenUser(t.sock) IN
       \E ok \in QueryOutcomes :
        IF ok /\ RoomExists(t.room)
        THEN /\ typing_indicators' = MapSet(typing_indicators, <<u, t.room>>, now)
             /\ typingUsers' = TypingAdd(typingUsers, t.room, u)
             /\ typingSince' = MapSet(typingSince, <<t.room, u>>, now)
             /\ emitted' = SocketToEmit(t.sock, RoomName(t.room), "user_typing", u, t.room, 0)
        ELSE /\ emitted' = {}
             /\ UNCHANGED <<storageFaulty, friends, nextFriendId, refused, typing_indicators, typingUsers, typingSince>>
    /\ tasks' = tasks \ {t}
    /\ UNCHANGED <<storageFaulty, friends, nextFriendId, refused, sockets, closed, activeUsers, userSockets, rooms, users_status,
                   messages, message_reactions, nextInsertId, timeVars, eventsLeft>>

\* socket.on('typing_stop'): up to the first await.
TypingStop(s, r) ==
    /\ CanIssue(s) /\ Idle(s, "typing_stop")
    /\ tasks' = tasks \cup {Task(s, "typing_stop", "delete", r, 0, 0)}
    /\ emitted' = {}
    /\ eventsLeft' = eventsLeft - 1
    /\ UNCHANGED <<storageFaulty, friends, nextFriendId, refused, sockets, closed, memVars, rooms, dbVars, timeVars>>

\* DELETE FROM typing_indicators WHERE user_id = ? AND room_id = ?, then the
\* local set and socket.to(room).emit('user_stopped_typing'); the catch logs.
TypingStopDelete(t) ==
    /\ t \in tasks /\ t.ev = "typing_stop"
    /\ LET u == TokenUser(t.sock) IN
       \E ok \in QueryOutcomes :
        IF ok
        THEN /\ typing_indicators' = MapDelete(typing_indicators, <<u, t.room>>)
             /\ typingUsers' = TypingRemove(typingUsers, t.room, u)
             /\ typingSince' = MapDelete(typingSince, <<t.room, u>>)
             /\ emitted' = SocketToEmit(t.sock, RoomName(t.room), "user_stopped_typing",
                                        u, t.room, 0)
        ELSE /\ emitted' = {}
             /\ UNCHANGED <<storageFaulty, friends, nextFriendId, refused, typing_indicators, typingUsers, typingSince>>
    /\ tasks' = tasks \ {t}
    /\ UNCHANGED <<storageFaulty, friends, nextFriendId, refused, sockets, closed, activeUsers, userSockets, rooms, users_status,
                   messages, message_reactions, nextInsertId, timeVars, eventsLeft>>

\* Time passes; the cleanup timer fires before the clock moves past it.
Tick ==
    /\ \E d \in Delays :
        /\ now + d <= MaxClock
        /\ now + d <= nextSweep
        /\ now' = now + d
    /\ emitted' = {}
    /\ UNCHANGED <<storageFaulty, friends, nextFriendId, refused, sockets, closed, memVars, rooms, dbVars, tasks, nextSweep, eventsLeft>>

\* DELETE FROM typing_indicators WHERE started_at < DATE_SUB(NOW(), INTERVAL 30 SECOND)
SweepRows(rows, at) ==
    [k \in {x \in DOMAIN rows : ~(rows[x] < at - TypingTTL)} |-> rows[k]]

\* The setInterval callback: the DELETE is its only effect.
Sweep ==
    /\ now = nextSweep
    /\ \E ok \in QueryOutcomes :
        typing_indicators' = IF ok THEN SweepRows(typing_indicators, now)
                             ELSE typing_indicators
    /\ nextSweep' = nextSweep + SweepInterval
    /\ emitted' = {}
    /\ UNCHANGED <<storageFaulty, friends, nextFriendId, refused, sockets, closed, memVars, rooms, users_status, messages,
                   message_reactions, nextInsertId, tasks, now, eventsLeft>>

\* -------------------------------------------------------------- reactions

\* SELECT emoji, COUNT(*) as count, GROUP_CONCAT(u.display_name) as users
\* FROM message_reactions mr JOIN users u ... WHERE mr.message_id = ? GROUP BY emoji
\* (users: the display names with their multiplicities, order left open).
AggregateOf(rows, m) ==
    {[emoji |-> e,
      count |-> Cardinality({x \in rows : x[1] = m /\ x[3] = e}),
      users |-> [n \in {DisplayName(x[2]) : x \in {y \in rows : y[1] = m /\ y[3] = e}} |->
                    Cardinality({x \in rows : x[1] = m /\ x[3] = e /\ DisplayName(x[2]) = n})]]
     : e \in {x[3] : x \in {y \in rows : y[1] = m}}}

SelectReactions(m) == AggregateOf(message_reactions, m)

\* SELECT room_id FROM messages WHERE id = ?
SelectMessageRoom(m) == {x.room_id : x \in SelectMessage(m)}

\* FOREIGN KEY (message_id) REFERENCES messages(id)
MessageExists(m) == SelectMessage(m) # {}

\* io.to(`room_${roomId}`).emit(ev, {messageId, emoji, userId, reactions})
\* when the message has a row; nothing otherwise.
EmitReactions(t, ev) ==
    UNION {IoToEmit(RoomName(r), ev, TokenUser(t.sock), r,
                    [messageId |-> t.msg, reactions |-> t.data])
           : r \in SelectMessageRoom(t.msg)}

\* socket.on('add_reaction'): up to the first await.
AddReaction(s, m, e) ==
    /\ CanIssue(s) /\ Idle(s, "add_reaction")
    /\ tasks' = tasks \cup {Task(s, "add_reaction", "write", e, m, {})}
    /\ emitted' = {}
    /\ eventsLeft' = eventsLeft - 1
    /\ UNCHANGED <<storageFaulty, friends, nextFriendId, refused, sockets, closed, memVars, rooms, dbVars, timeVars>>

\* INSERT INTO message_reactions ... ON DUPLICATE KEY UPDATE emoji = VALUES(emoji)
\* A value longer than the column is refused by a server in strict mode and
\* truncated otherwise; the handler does not look at the emoji.
AddReactionInsert(t) ==
    /\ t \in tasks /\ t.ev = "add_reaction" /\ t.pc = "write"
    /\ \E ok \in QueryOutcomes, strict \in BOOLEAN :
        IF ok /\ MessageExists(t.msg) /\ (EmojiLen(t.room) <= MaxEmojiLength \/ ~strict)
        THEN /\ message_reactions' = message_reactions \cup
                    {<<t.msg, TokenUser(t.sock), EmojiStored(t.room)>>}
             /\ tasks' = Replace(t, [t EXCEPT !.pc = "aggregate"])
        ELSE /\ message_reactions' = message_reactions
             /\ tasks' = tasks \ {t}
    /\ emitted' = {}
    /\ UNCHANGED <<storageFaulty, friends, nextFriendId, refused, sockets, closed, memVars, rooms, users_status, messages,
                   typing_indicators, nextInsertId, timeVars, eventsLeft>>

\* The aggregate read of add_reaction.
AddReactionAggregate(t) ==
    /\ t \in tasks /\ t.ev = "add_reaction" /\ t.pc = "aggregate"
    /\ \E ok \in QueryOutcomes :
        tasks' = IF ok THEN Replace(t, [t EXCEPT !.pc = "room", !.data = SelectReactions(t.msg)])
                 ELSE tasks \ {t}
    /\ emitted' = {}
    /\ UNCHANGED <<storageFaulty, friends, nextFriendId, refused, sockets, closed, memVars, rooms, dbVars, timeVars, eventsLeft>>

\* The room read of add_reaction and the emit of 'reaction_added'.
AddReactionRoom(t) ==
    /\ t \in tasks /\ t.ev = "add_reaction" /\ t.pc = "room"
    /\ \E ok \in QueryOutcomes :
        emitted' = IF ok THEN EmitReactions(t, "reaction_added") ELSE {}
    /\ tasks' = tasks \ {t}
    /\ UNCHANGED <<storageFaulty, friends, nextFriendId, refused, sockets, closed, memVars, rooms, dbVars, timeVars, eventsLeft>>

\* socket.on('remove_reaction'): up to the first await.
RemoveReaction(s, m, e) ==
    /\ CanIssue(s) /\ Idle(s, "remove_reaction")
    /\ tasks' = tasks \cup {Task(s, "remove_reaction", "write", e, m, {})}
    /\ emitted' = {}
    /\ eventsLeft' = eventsLeft - 1
    /\ UNCHANGED <<storageFaulty, friends, nextFriendId, refused, sockets, closed, memVars, rooms, dbVars, timeVars>>

\* DELETE FROM message_reactions WHERE message_id = ? AND user_id = ? AND emoji = ?
RemoveReactionDelete(t) ==
    /\ t \in tasks /\ t.ev = "remove_reaction" /\ t.pc = "write"
    /\ \E ok \in QueryOutcomes :
        IF ok
        THEN /\ message_reactions' = message_reactions \
                    {<<t.msg, TokenUser(t.sock), t.room>>}
             /\ tasks' = Replace(t, [t EXCEPT !.pc = "aggregate"])
        ELSE /\ message_reactions' = message_reactions
             /\ tasks' = tasks \ {t}
    /\ emitted' = {}
    /\ UNCHANGED <<storageFaulty, friends, nextFriendId, refused, sockets, closed, memVars, rooms, users_status, messages,
                   typing_indicators, nextInsertId, timeVars, eventsLeft>>

\* The aggregate read of remove_reaction.
RemoveReactionAggregate(t) ==
    /\ t \in tasks /\ t.ev = "remove_reaction" /\ t.pc = "aggregate"
    /\ \E ok \in QueryOutcomes :
        tasks' = IF ok THEN Replace(t, [t EXCEPT !.pc = "room", !.data = SelectReactions(t.msg)])
                 ELSE tasks \ {t}
    /\ emitted' = {}
    /\ UNCHANGED <<storageFaulty, friends, nextFriendId, refused, sockets, closed, memVars, rooms, dbVars, timeVars, eventsLeft>>

\* The room read of remove_reaction and the emit of 'reaction_removed'.
RemoveReactionRoom(t) ==
    /\ t \in tasks /\ t.ev = "remove_reaction" /\ t.pc = "room"
    /\ \E ok \in QueryOutcomes :
        emitted' = IF ok THEN EmitReactions(t, "reaction_removed") ELSE {}
    /\ tasks' = tasks \ {t}
    /\ UNCHANGED <<storageFaulty, friends, nextFriendId, refused, sockets, closed, memVars, rooms, dbVars, timeVars, eventsLeft>>

\* ------------------------------------------------------------------ status

\* res.status(code).json(...) of a request of user u.
Respond(u, code) == {Ev("http", "response", u, 0, code)}

\* PUT /status by a user with a valid access token: authenticateToken up to
\* its users read.  The task runs for the user, not for a socket.
PutStatus(u, st) ==
    /\ eventsLeft > 0 /\ Idle(u, "put_status")
    /\ tasks' = tasks \cup {Task(u, "put_status", "auth", 0, 0, st)}
    /\ emitted' = {}
    /\ eventsLeft' = eventsLeft - 1
    /\ UNCHANGED <<storageFaulty, friends, nextFriendId, refused, sockets, closed, memVars, rooms, dbVars, timeVars>>

\* The users read of authenticateToken, then body('status').isIn([...]) and
\* the route up to its UPDATE.
PutStatusAuth(t) ==
    /\ t \in tasks /\ t.ev = "put_status" /\ t.pc = "auth"
    /\ \E ok \in QueryOutcomes :
        IF ~ok
        THEN emitted' = Respond(t.sock, 500) /\ tasks' = tasks \ {t}
        ELSE IF SelectUser(t.sock) = {}
        THEN emitted' = Respond(t.sock, 401) /\ tasks' = tasks \ {t}
        ELSE IF \E u \in SelectUser(t.sock) : u.is_banned
        THEN emitted' = Respond(t.sock, 403) /\ tasks' = tasks \ {t}
        ELSE IF t.data \notin Statuses
        THEN emitted' = Respond(t.sock, 400) /\ tasks' = tasks \ {t}
        ELSE emitted' = {} /\ tasks' = Replace(t, [t EXCEPT !.pc = "update"])
    /\ UNCHANGED <<storageFaulty, friends, nextFriendId, refused, sockets, closed, memVars, rooms, dbVars, timeVars,
                   eventsLeft>>

\* UPDATE users SET status = ?, last_seen = CURRENT_TIMESTAMP WHERE id = ?
PutStatusUpdate(t) ==
    /\ t \in tasks /\ t.ev = "put_status" /\ t.pc = "update"
    /\ \E ok \in QueryOutcomes :
        IF ok
        THEN /\ users_status' = [users_status EXCEPT ![t.sock] = t.data]
             /\ tasks' = Replace(t, [t EXCEPT !.pc = "activity"])
             /\ emitted' = {}
        ELSE /\ users_status' = users_status
             /\ tasks' = tasks \ {t}
             /\ emitted' = Respond(t.sock, 500)
    /\ UNCHANGED <<storageFaulty, friends, nextFriendId, refused, sockets, closed, memVars, rooms, messages,
                   message_reactions, typing_indicators, nextInsertId, timeVars, eventsLeft>>

\* INSERT INTO user_activity ..., then res.json({ message, status }).
PutStatusActivity(t) ==
    /\ t \in tasks /\ t.ev = "put_status" /\ t.pc = "activity"
    /\ \E ok \in QueryOutcomes :
        emitted' = Respond(t.sock, IF ok THEN 200 ELSE 500)
    /\ tasks' = tasks \ {t}
    /\ UNCHANGED <<storageFaulty, friends, nextFriendId, refused, sockets, closed, memVars, rooms, dbVars, timeVars,
                   eventsLeft>>

\* ---------------------------------------------------------------- friends

\* What the friends routes leave alone.
notFriends == <<sockets, closed, refused, memVars, rooms, dbVars, timeVars, storageFaulty>>

\* SELECT ... FROM friends WHERE (user_id = ? AND friend_id = ?)
\*                            OR (user_id = ? AND friend_id = ?)
SelectFriendship(u, f) ==
    {x \in friends : \/ (x.user_id = u /\ x.friend_id = f)
                     \/ (x.user_id = f /\ x.friend_id = u)}

\* SELECT user_id, friend_id FROM friends WHERE id = ? AND friend_id = ? AND status = 'pending'
SelectRequest(id, u) ==
    {x \in friends : x.id = id /\ x.friend_id = u /\ x.status = "pending"}

\* UNIQUE KEY unique_friendship (user_id, friend_id): whether the INSERT of
\* a row <u, f> is accepted.
UniqueFriendship(u, f) == \A x \in friends : ~(x.user_id = u /\ x.friend_id = f)

\* A request of user u enters a friends route: authenticateToken up to its
\* users read.  ev names the route, id the :requestId and f the other user.
FriendCall(u, ev, id, f) ==
    /\ eventsLeft > 0 /\ Idle(u, ev)
    /\ tasks' = tasks \cup {Task(u, ev, "auth", 0, id, f)}
    /\ emitted' = {}
    /\ eventsLeft' = eventsLeft - 1
    /\ UNCHANGED <<notFriends, friends, nextFriendId>>

\* POST /request { friend_id }
FriendRequest(u, f) == FriendCall(u, "friend_request", 0, f)

\* PUT /accept/:requestId
FriendAccept(u, id) == FriendCall(u, "friend_accept", id, u)

\* DELETE /decline/:requestId
FriendDecline(u, id) == FriendCall(u, "friend_decline", id, u)

\* DELETE /:friendId
FriendRemove(u, f) == FriendCall(u, "friend_remove", 0, f)

\* POST /block { friend_id }
FriendBlock(u, f) == FriendCall(u, "friend_block", 0, f)

FriendRoutes ==
    {"friend_request", "friend_accept", "friend_decline", "friend_remove", "friend_block"}

\* The users read of authenticateToken, then the route up to its first
\* await: /request and /block validate friend_id and refuse the caller's own
\* id before their users read, the others go to their friends read.
FriendAuth(t) ==
    /\ t \in tasks /\ t.ev \in FriendRoutes /\ t.pc = "auth"
    /\ \E ok \in QueryOutcomes :
        IF ~ok
        THEN emitted' = Respond(t.sock, 500) /\ tasks' = tasks \ {t}
        ELSE IF SelectUser(t.sock) = {}
        THEN emitted' = Respond(t.sock, 401) /\ tasks' = tasks \ {t}
        ELSE IF \E u \in SelectUser(t.sock) : u.is_banned
        THEN emitted' = Respond(t.sock, 403) /\ tasks' = tasks \ {t}
        ELSE IF t.ev \in {"friend_request", "friend_block"}
        THEN IF t.data = t.sock
             THEN emitted' = Respond(t.sock, 400) /\ tasks' = tasks \ {t}
             ELSE emitted' = {} /\ tasks' = Replace(t, [t EXCEPT !.pc = "exists"])
        ELSE emitted' = {} /\ tasks' = Replace(t, [t EXCEPT !.pc = "select"])
    /\ UNCHANGED <<notFriends, friends, nextFriendId, eventsLeft>>

\* SELECT id FROM users WHERE id = ? AND is_banned = FALSE of /request and
\* /block: 404 when there is no such user.
FriendExists(t) ==
    /\ t \in tasks /\ t.ev \in {"friend_request", "friend_block"} /\ t.pc = "exists"
    /\ \E ok \in QueryOutcomes :
        IF ~ok
        THEN emitted' = Respond(t.sock, 500) /\ tasks' = tasks \ {t}
        ELSE IF {x \in SelectUser(t.data) : ~x.is_banned} = {}
        THEN emitted' = Respond(t.sock, 404) /\ tasks' = tasks \ {t}
        ELSE /\ emitted' = {}
             /\ tasks' = Replace(t, [t EXCEPT !.pc =
                            IF t.ev = "friend_request" THEN "check" ELSE "delete"])
    /\ UNCHANGED <<notFriends, friends, nextFriendId, eventsLeft>>

\* /request: the read of an existing friendship in either direction; a row
\* in any status answers 400.
FriendRequestCheck(t) ==
    /\ t \in tasks /\ t.ev = "friend_request" /\ t.pc = "check"
    /\ \E ok \in QueryOutcomes :
        IF ~ok
        THEN emitted' = Respond(t.sock, 500) /\ tasks' = tasks \ {t}
        ELSE IF SelectFriendship(t.sock, t.data) # {}
        THEN emitted' = Respond(t.sock, 400) /\ tasks' = tasks \ {t}
        ELSE emitted' = {} /\ tasks' = Replace(t, [t EXCEPT !.pc = "insert"])
    /\ UNCHANGED <<notFriends, friends, nextFriendId, eventsLeft>>

\* INSERT INTO friends (user_id, friend_id, status) VALUES (?, ?, ?) of
\* /request ('pending') and /block ('blocked'); a duplicate of the unique key
\* is rejected like a failed statement.
FriendInsert(t) ==
    /\ t \in tasks /\ t.ev \in {"friend_request", "friend_block"} /\ t.pc = "insert"
    /\ \E ok \in QueryOutcomes :
        IF ok /\ UniqueFriendship(t.sock, t.data)
        THEN /\ friends' = friends \cup
                    {[id |-> nextFriendId, user_id |-> t.sock, friend_id |-> t.data,
                      status |-> IF t.ev = "friend_request" THEN "pending" ELSE "blocked"]}
             /\ nextFriendId' = nextFriendId + 1
             /\ emitted' = {}
             /\ tasks' = Replace(t, [t EXCEPT !.pc =
                            IF t.ev = "friend_request" THEN "notify" ELSE "activity"])
        ELSE /\ emitted' = Respond(t.sock, 500)
             /\ tasks' = tasks \ {t}
             /\ UNCHANGED <<friends, nextFriendId>>
    /\ UNCHANGED <<notFriends, eventsLeft>>

\* /accept and /decline: the read of the pending request addressed to the
\* caller; 404 when there is none.
FriendSelectRequest(t) ==
    /\ t \in tasks /\ t.ev \in {"friend_accept", "friend_decline"} /\ t.pc = "select"
    /\ \E ok \in QueryOutcomes :
        IF ~ok
        THEN emitted' = Respond(t.sock, 500) /\ tasks' = tasks \ {t}
        ELSE IF SelectRequest(t.msg, t.sock) = {}
        THEN emitted' = Respond(t.sock, 404) /\ tasks' = tasks \ {t}
        ELSE /\ emitted' = {}
             /\ tasks' = Replace(t, [t EXCEPT !.pc =
                            IF t.ev = "friend_accept" THEN "update" ELSE "delete"])
    /\ UNCHANGED <<notFriends, friends, nextFriendId, eventsLeft>>

\* UPDATE friends SET status = 'accepted' WHERE id = ?
FriendAcceptUpdate(t) ==
    /\ t \in tasks /\ t.ev = "friend_accept" /\ t.pc = "update"
    /\ \E ok \in QueryOutcomes :
        IF ok
        THEN /\ friends' = {IF x.id = t.msg THEN [x EXCEPT !.status = "accepted"] ELSE x :
                                x \in friends}
             /\ emitted' = {}
             /\ tasks' = Replace(t, [t EXCEPT !.pc = "notify"])
        ELSE /\ emitted' = Respond(t.sock, 500)
             /\ tasks' = tasks \ {t}
             /\ friends' = friends
    /\ UNCHANGED <<notFriends, nextFriendId, eventsLeft>>

\* DELETE FROM friends WHERE id = ?
FriendDeclineDelete(t) ==
    /\ t \in tasks /\ t.ev = "friend_decline" /\ t.pc = "delete"
    /\ \E ok \in QueryOutcomes :
        IF ok
        THEN /\ friends' = {x \in friends : x.id # t.msg}
             /\ emitted' = {}
             /\ tasks' = Replace(t, [t EXCEPT !.pc = "activity"])
        ELSE /\ emitted' = Respond(t.sock, 500)
             /\ tasks' = tasks \ {t}
             /\ friends' = friends
    /\ UNCHANGED <<notFriends, nextFriendId, eventsLeft>>

\* DELETE /:friendId: the read of a friendship in either direction; 404 when
\* there is none.
FriendRemoveSelect(t) ==
    /\ t \in tasks /\ t.ev = "friend_remove" /\ t.pc = "select"
    /\ \E ok \in QueryOutcomes :
        IF ~ok
        THEN emitted' = Respond(t.sock, 500) /\ tasks' = tasks \ {t}
        ELSE IF SelectFriendship(t.sock, t.data) = {}
        THEN emitted' = Respond(t.sock, 404) /\ tasks' = tasks \ {t}
        ELSE emitted' = {} /\ tasks' = Replace(t, [t EXCEPT !.pc = "delete"])
    /\ UNCHANGED <<notFriends, friends, nextFriendId, eventsLeft>>

\* DELETE FROM friends WHERE (user_id = ? AND friend_id = ?) OR (user_id = ?
\* AND friend_id = ?) of DELETE /:friendId and of /block, which goes on to
\* its INSERT.
FriendDeleteBoth(t) ==
    /\ t \in tasks /\ t.ev \in {"friend_remove", "friend_block"} /\ t.pc = "delete"
    /\ \E ok \in QueryOutcomes :
        IF ok
        THEN /\ friends' = friends \ SelectFriendship(t.sock, t.data)
             /\ emitted' = {}
             /\ tasks' = Replace(t, [t EXCEPT !.pc =
                            IF t.ev = "friend_block" THEN "insert" ELSE "activity"])
        ELSE /\ emitted' = Respond(t.sock, 500)
             /\ tasks' = tasks \ {t}
             /\ friends' = friends
    /\ UNCHANGED <<notFriends, nextFriendId, eventsLeft>>

\* INSERT INTO notifications ... of /request and /accept.
FriendNotify(t) ==
    /\ t \in tasks /\ t.ev \in {"friend_request", "friend_accept"} /\ t.pc = "notify"
    /\ \E ok \in QueryOutcomes :
        IF ok
        THEN emitted' = {} /\ tasks' = Replace(t, [t EXCEPT !.pc = "activity"])
        ELSE emitted' = Respond(t.sock, 500) /\ tasks' = tasks \ {t}
    /\ UNCHANGED <<notFriends, friends, nextFriendId, eventsLeft>>

\* INSERT INTO user_activity ..., then the response of the route: 201 for
\* /request and /block, 200 for the others.
FriendActivity(t) ==
    /\ t \in tasks /\ t.ev \in FriendRoutes /\ t.pc = "activity"
    /\ \E ok \in QueryOutcomes :
        emitted' = Respond(t.sock, IF ~ok THEN 500
                                   ELSE IF t.ev \in {"friend_request", "friend_block"} THEN 201
                                   ELSE 200)
    /\ tasks' = tasks \ {t}
    /\ UNCHANGED <<notFriends, friends, nextFriendId, eventsLeft>>

\* ------------------------------------------------------------ specification

\* Storage may fail.
Init == InitState /\ storageFaulty = TRUE /\ eventsLeft = MaxEvents

\* Storage may or may not fail.
InitAny == InitState /\ storageFaulty \in BOOLEAN /\ eventsLeft = MaxEvents

\* Storage answers every query.
InitReliable == InitState /\ storageFaulty = FALSE /\ eventsLeft = MaxReactionEvents

\* Connection lifecycle of the sockets S.
ConnectionSteps(S) ==
    \/ \E s \in S : Connect(s)
    \/ \E s \in S : Disconnect(s)
    \/ \E t \in tasks : ConnectStatus(t)
    \/ \E t \in tasks : ConnectRooms(t)
    \/ \E t \in tasks : DisconnectStatus(t)
    \/ \E t \in tasks : DisconnectActivity(t)

RoomSteps(S) ==
    \/ \E s \in S, r \in RoomIds : JoinRoom(s, r)
    \/ \E s \in S, r \in RoomIds : LeaveRoom(s, r)
    \/ \E t \in tasks : JoinRoomType(t)
    \/ \E t \in tasks : JoinRoomMember(t)

MessageSteps(S) ==
    \/ \E s \in S, r \in RoomIds, c \in Contents : SendMessage(s, r, c)
    \/ \E t \in tasks : SendRoomType(t)
    \/ \E t \in tasks : SendMember(t)
    \/ \E t \in tasks : SendInsert(t)
    \/ \E t \in tasks : SendSelect(t)
    \/ \E t \in tasks : SendActivity(t)

TypingSteps(S) ==
    \/ \E s \in S, r \in RoomIds : TypingStart(s, r)
    \/ \E s \in S, r \in RoomIds : TypingStop(s, r)
    \/ \E t \in tasks : TypingStartUpsert(t)
    \/ \E t \in tasks : TypingStopDelete(t)

StatusSteps(U) ==
    \/ \E u \in U, st \in StatusInputs : PutStatus(u, st)
    \/ \E t \in tasks : PutStatusAuth(t)
    \/ \E t \in tasks : PutStatusUpdate(t)
    \/ \E t \in tasks : PutStatusActivity(t)

ReactionTaskSteps ==
    \/ \E t \in tasks : AddReactionInsert(t)
    \/ \E t \in tasks : AddReactionAggregate(t)
    \/ \E t \in tasks : AddReactionRoom(t)
    \/ \E t \in tasks : RemoveReactionDelete(t)
    \/ \E t \in tasks : RemoveReactionAggregate(t)
    \/ \E t \in tasks : RemoveReactionRoom(t)

ReactionSteps(S) ==
    \/ \E s \in S, m \in MessageIds, e \in Emojis : AddReaction(s, m, e)
    \/ \E s \in S, m \in MessageIds, e \in Emojis : RemoveReaction(s, m, e)
    \/ ReactionTaskSteps

Next ==
    \/ ConnectionSteps(Sockets)
    \/ RoomSteps(Sockets)
    \/ MessageSteps(Sockets)
    \/ TypingSteps(Sockets)
    \/ ReactionSteps(Sockets)
    \/ \E s \in Sockets \cup Intruders : Refuse(s)
    \/ StatusSteps(Users)
    \/ Tick
    \/ Sweep

Spec == Init /\ [][Next]_vars

\* One device of each user.
OneEach == {"a1", "b1"}

\* The session registry alone: every connection attempt, connect and disconnect.
NextPresence == ConnectionSteps(Sockets)
SpecPresence == Init /\ [][NextPresence]_vars

\* Connections and room subscription.
NextRooms == ConnectionSteps(Sockets) \/ RoomSteps(Sockets)
SpecRooms == InitAny /\ [][NextRooms]_vars

\* Connections and send_message.
NextMessages == ConnectionSteps(Sockets) \/ MessageSteps(Sockets)
SpecMessages == Init /\ [][NextMessages]_vars

\* Every handler that publishes to a room, one device per user.
NextPublish ==
    \/ ConnectionSteps(OneEach)
    \/ RoomSteps(OneEach)
    \/ MessageSteps(OneEach)
    \/ TypingSteps(OneEach)
    \/ ReactionSteps(OneEach)
SpecPublish == Init /\ [][NextPublish]_vars

\* Reactions of two users whose storage round-trips all succeed, each
\* connection with at most one reaction handler in flight.
NextReactions ==
    \/ ConnectionSteps(OneEach)
    \/ \E s \in OneEach, m \in MessageIds, e \in Emojis :
            Idle(s, "remove_reaction") /\ AddReaction(s, m, e)
    \/ \E s \in OneEach, m \in MessageIds, e \in Emojis :
            Idle(s, "add_reaction") /\ RemoveReaction(s, m, e)
    \/ ReactionTaskSteps
SpecReactions == InitReliable /\ [][NextReactions]_vars

\* Typing indicators under the clock and the cleanup timer.
NextTyping == ConnectionSteps(OneEach) \/ TypingSteps(OneEach) \/ Tick \/ Sweep
SpecTyping == Init /\ [][NextTyping]_vars

\* Rooms anyone may join.
OpenRooms == {r \in DOMAIN chat_rooms : chat_rooms[r] = "public"}

\* Storage answers every query; budget of SpecSweep.
InitSweep == InitState /\ storageFaulty = FALSE /\ eventsLeft = MaxSweepEvents

\* Two users who join a public room and type there while the clock and the
\* cleanup timer run; nobody disconnects or sends typing_stop.
NextSweep ==
    \/ \E s \in OneEach : Connect(s)
    \/ \E t \in tasks : ConnectStatus(t)
    \/ \E t \in tasks : ConnectRooms(t)
    \/ \E s \in OneEach, r \in OpenRooms : JoinRoom(s, r)
    \/ \E t \in tasks : JoinRoomType(t)
    \/ \E s \in OneEach, r \in OpenRooms : TypingStart(s, r)
    \/ \E t \in tasks : TypingStartUpsert(t)
    \/ Tick
    \/ Sweep
SpecSweep == InitSweep /\ [][NextSweep]_vars

\* add_reaction with any emoji string, storage answering every query.
NextEmoji ==
    \/ ConnectionSteps(OneEach)
    \/ \E s \in OneEach, m \in MessageIds, e \in EmojiInputs : AddReaction(s, m, e)
    \/ \E t \in tasks : AddReactionInsert(t)
    \/ \E t \in tasks : AddReactionAggregate(t)
    \/ \E t \in tasks : AddReactionRoom(t)
SpecEmoji == InitReliable /\ [][NextEmoji]_vars

\* Connection attempts with good and bad credentials, and what a client can
\* send on them.
HandshakeSockets == {"a1", "b1"} \cup Intruders

NextHandshake ==
    \/ \E s \in HandshakeSockets : Refuse(s)
    \/ ConnectionSteps(HandshakeSockets)
    \/ RoomSteps(HandshakeSockets)
SpecHandshake == Init /\ [][NextHandshake]_vars

\* Presence: connections of both users and their explicit status updates.
NextStatus == ConnectionSteps(OneEach) \/ StatusSteps(Users)
SpecStatus == Init /\ [][NextStatus]_vars

\* Storage answers every query.
InitDevices == InitState /\ storageFaulty = FALSE /\ eventsLeft = MaxEvents

\* Connects and disconnects of the devices of both users with a storage that
\* never fails.
SpecDevices == InitDevices /\ [][NextPresence]_vars

\* The same, with the event loop eventually running the continuation of
\* every membership read it has issued.
SpecAutoJoin ==
    SpecDevices /\ WF_vars(\E t \in tasks : ConnectRooms(t))

\* One connection that starts and stops typing, again and again, while the
\* clock and the cleanup timer run; storage answers every query.
NextTypingRepeat ==
    \/ Connect("a1")
    \/ \E t \in tasks : ConnectStatus(t)
    \/ \E t \in tasks : ConnectRooms(t)
    \/ \E r \in RoomIds : TypingStart("a1", r)
    \/ \E t \in tasks : TypingStartUpsert(t)
    \/ \E r \in RoomIds : TypingStop("a1", r)
    \/ \E t \in tasks : TypingStopDelete(t)
    \/ Tick
    \/ Sweep
SpecTypingRepeat == InitSweep /\ [][NextTypingRepeat]_vars

\* Ids a caller may put in :requestId, and users it may name as friend_id.
RequestIds == {1, 2}
FriendInputs == Users \cup BannedUsers

\* The friends routes called by the users U.
FriendSteps(U) ==
    \/ \E u \in U, f \in FriendInputs : FriendRequest(u, f)
    \/ \E u \in U, id \in RequestIds : FriendAccept(u, id)
    \/ \E u \in U, id \in RequestIds : FriendDecline(u, id)
    \/ \E u \in U, f \in FriendInputs : FriendRemove(u, f)
    \/ \E u \in U, f \in FriendInputs : FriendBlock(u, f)
    \/ \E t \in tasks : FriendAuth(t)
    \/ \E t \in tasks : FriendExists(t)
    \/ \E t \in tasks : FriendRequestCheck(t)
    \/ \E t \in tasks : FriendInsert(t)
    \/ \E t \in tasks : FriendSelectRequest(t)
    \/ \E t \in tasks : FriendAcceptUpdate(t)
    \/ \E t \in tasks : FriendDeclineDelete(t)
    \/ \E t \in tasks : FriendRemoveSelect(t)
    \/ \E t \in tasks : FriendDeleteBoth(t)
    \/ \E t \in tasks : FriendNotify(t)
    \/ \E t \in tasks : FriendActivity(t)

\* The friends routes called by both users, with a storage that answers
\* every query.
NextFriends == FriendSteps(Users)
SpecFriends == InitDevices /\ [][NextFriends]_vars

\* ------------------------------------------------------ registry lookups

\* isOnline(identity): the identity has an entry in activeUsers.
isOnline(u) == MapHas(activeUsers, u)

\* connectionsFor(identity): the live connections recorded for the identity.
connectionsFor(u) == {s \in DOMAIN userSockets : userSockets[s] = u}

\* subscribersOf(roomId)
subscribersOf(r) == rooms[RoomName(r)]

\* activeTypists(roomId)
activeTypists(r) == IF MapHas(typingUsers, r) THEN typingUsers[r] ELSE {}

\* ------------------------------------------------------------------ claims

\* C1: in every reachable state and for every identity I, isOnline(I) holds if
\* and only if connectionsFor(I) is non-empty.
C1_OnlineIffConnected ==
    \A u \in Users : isOnline(u) <=> connectionsFor(u) # {}

\* C2: user_offline is emitted for an identity only when its last live
\* connection has disconnected, never while it still holds a live connection.
C2_OfflineOnlyAfterLast ==
    \A e \in emitted : e.ev = "user_offline" => connectionsFor(e.user) = {}

\* C3: a connect by an identity that already has a live connection emits no
\* user_online: whenever user_online is emitted for I, the connecting socket is
\* I's only live connection.
C3_NoRedundantOnline ==
    \A e \in emitted : e.ev = "user_online" => Cardinality(connectionsFor(e.user)) = 1

C5_JoinIdempotent ==
    [][\A t \in tasks :
        (t.ev = "join_room" /\ t \notin tasks' /\ t.sock \in subscribersOf(t.room))
        => /\ rooms' = rooms
           /\ \A e \in emitted' : e.ev \notin {"joined_room", "user_joined_room"}]_vars

\* C6: join_room on a private or group room by an identity with no
\* membership row changes no subscriber set, emits no joined_room or
\* user_joined_room and nothing to anyone but the caller, and ends with
\* error "Access denied" to the caller (with "Failed to join room" only when a
\* storage read fails); join_room on a public room subscribes the caller and
\* emits joined_room to it (unless the room read fails).
C6_JoinAccess ==
    [][\A t \in tasks :
        (t.ev = "join_room" /\ t \notin tasks') =>
        LET u == TokenUser(t.sock)
            type == SelectRoomType(t.room)
            denied == Ev(t.sock, "error", u, 0, "Access denied")
            failed == Ev(t.sock, "error", u, 0, "Failed to join room")
        IN
        /\ (type # {} /\ type \subseteq {"private", "group"} /\ SelectMember(t.room, u) = {})
            => /\ rooms' = rooms
               /\ emitted' \subseteq {denied, failed}
               /\ (t.pc = "member" /\ t.sock \in sockets)
                    => (denied \in emitted' \/ (storageFaulty /\ failed \in emitted'))
        /\ (type = {"public"} /\ t.pc = "room")
            => \/ /\ t.sock \in subscribersOf(t.room)'
                  /\ t.sock \in sockets =>
                        Ev(t.sock, "joined_room", u, t.room, 0) \in emitted'
               \/ /\ storageFaulty
                  /\ rooms' = rooms
                  /\ emitted' \subseteq {failed}]_vars

\* A non-member was refused a group room while subscribed to a public room
\* it had joined.
C6_Witness ==
    /\ emitted = {Ev("b1", "error", "B", 0, "Access denied")}
    /\ "b1" \notin subscribersOf(2)
    /\ "b1" \in subscribersOf(1)

RoomScopedEvents ==
    {"new_message", "reaction_added", "reaction_removed", "user_typing",
     "user_stopped_typing", "user_joined_room", "user_left_room"}

C10_NoStaleTypist ==
    \A r \in RoomIds : \A u \in activeTypists(r) :
        now - typingSince[<<r, u>>] <= TypingTTL

\* C11: the periodic sweep emits a user_stopped_typing for each typing entry
\* it purges: when the cleanup timer removes the entry of user A for room R,
\* every connected subscriber of R that belongs to another user receives
\* user_stopped_typing{userId: A, roomId: R} in that step.
C11_SweepEmitsStopped ==
    [][\A k \in DOMAIN typing_indicators :
        (now = nextSweep /\ nextSweep' # nextSweep /\ k \notin DOMAIN typing_indicators')
        => \A c \in subscribersOf(k[2]) \cap sockets :
                TokenUser(c) # k[1]
                => Ev(c, "user_stopped_typing", k[1], k[2], 0) \in emitted']_vars

\* Contents the validation of send_message refuses.
InvalidContents == {c \in Contents : c.len = 0 \/ c.len > MaxContentLength}

\* C12: a send_message whose content is empty or longer than 2000 characters
\* ends in its first step with an error event to the sending socket only: it
\* starts no storage round-trip and writes nothing, and no send_message in
\* flight, no messages row and no new_message ever carries such a content.
C12_InvalidContentRejected ==
    [][/\ \A s \in Sockets, r \in RoomIds, c \in InvalidContents :
            SendMessage(s, r, c)
            => /\ tasks' = tasks
               /\ dbVars' = dbVars
               /\ emitted' = {Ev(s, "error", TokenUser(s), 0, "Invalid message content")}
       /\ \A c \in InvalidContents :
            /\ \A t \in tasks' : t.ev = "send_message" => t.data # c.text
            /\ \A m \in messages' : m.content # c.text
            /\ \A e \in emitted' : e.ev = "new_message" => e.data.content # c.text]_vars

\* An invalid content was refused while another connection was live and no
\* send_message is in flight.
C12_Witness ==
    /\ emitted = {Ev("a1", "error", "A", 0, "Invalid message content")}
    /\ "b1" \in sockets
    /\ \A t \in tasks : t.ev # "send_message"

\* C13: an add_reaction whose emoji is empty or longer than 10 characters
\* writes no message_reactions row and causes no reaction_added: every
\* persisted reaction and every broadcast aggregate has an emoji that was
\* sent with 1 to 10 characters, and the refusal ends the handler with an
\* error event to the sending socket.
C13_InvalidEmojiRejected ==
    [][/\ \A t \in tasks :
            (t.ev = "add_reaction" /\ t.pc = "write" /\ t \notin tasks'
             /\ EmojiLen(t.room) \notin 1..MaxEmojiLength)
            => /\ message_reactions' = message_reactions
               /\ \A x \in tasks' : ~(x.sock = t.sock /\ x.ev = "add_reaction")
               /\ t.sock \in sockets =>
                    \E e \in emitted' : e.to = t.sock /\ e.ev = "error"
       /\ \A e \in emitted' :
            e.ev = "reaction_added" =>
                \A g \in e.data.reactions : g.emoji \in Emojis]_vars

\* C14: a connection whose credential is missing, malformed or expired,
\* resolves to no users row or to a banned user, and any connection the
\* handshake refused, is never a connected socket, has no entry in the
\* session registry, is subscribed to no room, has no handler running for it
\* and receives nothing; the step that refuses it changes neither the
\* registry, the subscriptions nor the persisted presence and emits nothing,
\* and no user_online or other event is ever emitted for an identity that has
\* no users row or is banned.
C14_RefusedAtHandshake ==
    [][/\ \A s \in refused' \cup Intruders :
            /\ s \notin sockets'
            /\ s \notin DOMAIN userSockets'
            /\ \A u \in DOMAIN activeUsers' : activeUsers'[u] # s
            /\ \A n \in RoomNames : s \notin rooms'[n]
            /\ \A t \in tasks' : t.sock # s
            /\ \A e \in emitted' : e.to # s
       /\ \A e \in emitted' :
            e.user \in Users /\ (e.ev = "user_online" => e.user \notin BannedUsers)
       /\ refused' # refused =>
            /\ emitted' = {}
            /\ sockets' = sockets /\ rooms' = rooms /\ tasks' = tasks
            /\ memVars' = memVars /\ dbVars' = dbVars]_vars

\* Two connection attempts were refused, one of them of the banned user,
\* while a1 is connected.
C14_Witness ==
    /\ "c1" \in refused
    /\ Cardinality(refused) = 2
    /\ "a1" \in sockets

\* The membership test of join_room and send_message: the room is private or
\* group and the user has no room_members row for it.
NonMember(u, r) ==
    /\ SelectRoomType(r) # {}
    /\ SelectRoomType(r) \subseteq {"private", "group"}
    /\ SelectMember(r, u) = {}

\* C15: an identity that is not a member of a private or group room causes no
\* row to be written for that room (message, typing indicator, reaction on
\* one of its messages) and no event of join_room, send_message,
\* typing_start, typing_stop, add_reaction or remove_reaction to be delivered
\* for it.
C15_MembershipChecked ==
    /\ \A m \in messages : ~NonMember(m.user_id, m.room_id)
    /\ \A k \in DOMAIN typing_indicators : ~NonMember(k[1], k[2])
    /\ \A x \in message_reactions :
            \A r \in SelectMessageRoom(x[1]) : ~NonMember(x[2], r)
    /\ \A e \in emitted :
            e.ev \in {"joined_room", "user_joined_room", "new_message", "user_typing",
                      "user_stopped_typing", "reaction_added", "reaction_removed"}
            => ~NonMember(e.user, e.room)

\* C16: when a storage operation fails while join_room, send_message,
\* typing_start, typing_stop, add_reaction or remove_reaction is processed
\* (the handler ends and what its round-trip should have read or written is
\* not there), an error event goes to the originating socket and the session
\* registry, the subscription table and the typing table are left as they
\* were.
C16_StorageFailureReported ==
    [][\A t \in tasks :
        LET u == TokenUser(t.sock)
            ended == \A x \in tasks' : ~(x.sock = t.sock /\ x.ev = t.ev)
            allowed == SelectRoomType(t.room) # {} /\ ~NonMember(u, t.room)
            failed ==
                \/ /\ t.ev = "join_room" /\ allowed
                   /\ t.sock \notin subscribersOf(t.room)'
                \/ /\ t.ev = "send_message" /\ t.pc \in {"room", "member"} /\ allowed
                \/ /\ t.ev = "send_message" /\ t.pc = "insert"
                   /\ messages' = messages
                \/ /\ t.ev = "typing_start" /\ RoomExists(t.room)
                   /\ <<u, t.room>> \notin DOMAIN typing_indicators'
                \/ /\ t.ev = "typing_stop"
                   /\ <<u, t.room>> \in DOMAIN typing_indicators'
                \/ /\ t.ev = "add_reaction" /\ t.pc = "write" /\ MessageExists(t.msg)
                   /\ <<t.msg, u, t.room>> \notin message_reactions'
                \/ /\ t.ev = "remove_reaction" /\ t.pc = "write"
                   /\ <<t.msg, u, t.room>> \in message_reactions'
        IN (t \notin tasks' /\ ended /\ failed)
            => /\ t.sock \in sockets =>
                    \E e \in emitted' : e.to = t.sock /\ e.ev = "error"
               /\ memVars' = memVars
               /\ rooms' = rooms]_vars

\* C17: the reactions payload of every reaction_added / reaction_removed
\* event is the projection of the persisted reaction rows of its message at
\* the moment of the event: one entry per emoji that has a row, whose count is
\* the number of distinct users with that emoji and whose users are the
\* display names of exactly those users.
C17_PayloadIsProjection ==
    \A e \in emitted :
        e.ev \in {"reaction_added", "reaction_removed"} =>
        LET rows == {x \in message_reactions : x[1] = e.data.messageId}
            reactors(g) == {x[2] : x \in {y \in rows : y[3] = g}}
        IN /\ {g.emoji : g \in e.data.reactions} = {x[3] : x \in rows}
           /\ \A g \in e.data.reactions :
                /\ g.count = Cardinality(reactors(g.emoji))
                /\ DOMAIN g.users = {DisplayName(u) : u \in reactors(g.emoji)}
                /\ \A h \in e.data.reactions : h.emoji = g.emoji => h = g

\* C18: a leave_room for a room the connection is not subscribed to changes
\* no subscriber set and emits no user_left_room: whenever user_left_room is
\* delivered for user U and room R, a connection of U was subscribed to R
\* before the step and is not after it.
C18_LeaveIdempotent ==
    [][\A e \in emitted' :
        e.ev = "user_left_room" =>
            \E s \in sockets :
                /\ TokenUser(s) = e.user
                /\ s \in subscribersOf(e.room)
                /\ s \notin subscribersOf(e.room)']_vars

\* C19: an explicit status update sets the persisted presence of the user to
\* the requested one of online/away/busy/offline, whatever it was, and the
\* step that writes it delivers presence_changed for the user to every
\* connected socket; a status outside those four values is answered 400 and
\* leaves the presence unchanged.
C19_StatusUpdateAnnounced ==
    [][\A t \in tasks :
        /\ (t.ev = "put_status" /\ t.pc = "update"
            /\ [t EXCEPT !.pc = "activity"] \in tasks')
            => /\ t.data \in Statuses
               /\ users_status'[t.sock] = t.data
               /\ \A c \in sockets :
                    \E e \in emitted' :
                        e.to = c /\ e.ev = "presence_changed" /\ e.user = t.sock
        /\ (t.ev = "put_status" /\ t.pc = "auth" /\ t \notin tasks'
            /\ t.data \notin Statuses)
            => /\ users_status' = users_status
               /\ \A x \in tasks' : ~(x.sock = t.sock /\ x.ev = "put_status")]_vars

\* C20: whatever the interleaving of a disconnect of one connection of an
\* identity with a connect of another, the persisted presence is not left at
\* offline while the identity has a live connection: once no status write of
\* a connect or disconnect of the identity is in flight, an identity with a
\* connected socket is not offline in storage.
C20_NoOfflineWhileConnected ==
    \A u \in Users :
        (/\ \E s \in sockets : TokenUser(s) = u
         /\ \A t \in tasks :
                (t.ev = "connect_status" \/ (t.ev = "disconnect" /\ t.pc = "update"))
                => TokenUser(t.sock) # u)
        => users_status[u] # "offline"

\* Storage answers every query.
InitOrder == InitState /\ storageFaulty = FALSE /\ eventsLeft = MaxEvents

\* One connection that issues, in this order, its connect, a join_room of a
\* public room R and then either leave_room(R) or send_message(R) with a valid
\* content; the handlers run as the storage answers.
NextOrder ==
    \/ \E s \in Sockets : eventsLeft = MaxEvents /\ Connect(s)
    \/ \E t \in tasks : ConnectStatus(t)
    \/ \E t \in tasks : ConnectRooms(t)
    \/ \E s \in Sockets, r \in OpenRooms : eventsLeft = MaxEvents - 1 /\ JoinRoom(s, r)
    \/ \E t \in tasks : JoinRoomType(t)
    \/ \E s \in Sockets, r \in OpenRooms : eventsLeft = MaxEvents - 2 /\ LeaveRoom(s, r)
    \/ \E s \in Sockets, r \in OpenRooms, c \in Contents \ InvalidContents :
            eventsLeft = MaxEvents - 2 /\ SendMessage(s, r, c)
    \/ \E t \in tasks : SendRoomType(t)
    \/ \E t \in tasks : SendInsert(t)
    \/ \E t \in tasks : SendSelect(t)
    \/ \E t \in tasks : SendActivity(t)
SpecOrder == InitOrder /\ [][NextOrder]_vars

\* C21: the events of one connection take effect in the order it issued
\* them.  In SpecOrder the connection issues join_room(R) and then one more
\* event for R: when that event is send_message(R), the new_message it
\* broadcasts is delivered to the sender; when it is leave_room(R) (no
\* send_message is in flight and R has no message), the connection is not
\* subscribed to R once its join_room has ended.
C21_IssueOrder ==
    [][/\ \A t \in tasks :
            (t.ev = "send_message" /\ t.pc = "select"
             /\ [t EXCEPT !.pc = "activity"] \in tasks')
            => \E e \in emitted' : e.to = t.sock /\ e.ev = "new_message"
       /\ \A s \in sockets', r \in OpenRooms :
            (/\ eventsLeft' = MaxEvents - 3
             /\ \A t \in tasks' : t.sock = s => t.ev \notin {"join_room", "send_message"}
             /\ \A m \in messages' : m.room_id # r)
            => s \notin subscribersOf(r)']_vars

\* Typing of users with several devices, storage answering every query.
NextTypingDevices == ConnectionSteps(Sockets) \/ TypingSteps(Sockets)
SpecTypingDevices == InitReliable /\ [][NextTypingDevices]_vars

\* C22: when a connection disconnects while another connection of its user
\* is live, the user's typing entries are kept and no user_stopped_typing is
\* emitted for the user; when it was the user's last connection,
\* user_stopped_typing is delivered to the connected subscribers of every
\* room the user was marked typing in.
C22_StopTypingOnLastDisconnect ==
    [][\A s \in sockets \ sockets' :
        LET u == TokenUser(s)
            others == {c \in sockets' : TokenUser(c) = u}
            typed == {r \in RoomIds : u \in activeTypists(r)}
        IN /\ others # {} =>
                /\ typingUsers' = typingUsers
                /\ \A e \in emitted' : ~(e.ev = "user_stopped_typing" /\ e.user = u)
           /\ others = {} =>
                \A r \in typed : \A c \in subscribersOf(r)' \cap sockets' :
                    Ev(c, "user_stopped_typing", u, r, 0) \in emitted']_vars

\* C23: when the disconnect handling of the last live connection of an
\* identity has ended, also after a failed storage write, the persisted
\* presence of the identity is offline and the step that ends it delivers
\* user_offline to every other connected socket.
C23_OfflineAfterLastClose ==
    [][\A t \in tasks :
        LET u == TokenUser(t.sock) IN
        (/\ t.ev = "disconnect" /\ t \notin tasks'
         /\ \A x \in tasks' : ~(x.sock = t.sock /\ x.ev = "disconnect")
         /\ \A c \in sockets : TokenUser(c) # u)
        => /\ users_status'[u] = "offline"
           /\ \A c \in sockets : Ev(c, "user_offline", u, 0, 0) \in emitted']_vars

C25_AutoJoin ==
    /\ \A s \in Sockets :
        (\E t \in tasks : t.sock = s /\ t.ev = "connect_rooms")
        ~> (/\ \A t \in tasks : ~(t.sock = s /\ t.ev = "connect_rooms")
            /\ \A r \in DOMAIN chat_rooms :
                 <<r, TokenUser(s)>> \in room_members => s \in subscribersOf(r))
    /\ [][\A t \in tasks :
            (t.ev = "connect_rooms" /\ t \notin tasks')
            => \A r \in RoomIds :
                 /\ (r \in DOMAIN chat_rooms /\ <<r, TokenUser(t.sock)>> \in room_members)
                    => t.sock \in subscribersOf(r)'
                 /\ t.sock \in subscribersOf(r)' \ subscribersOf(r)
                    => <<r, TokenUser(t.sock)>> \in room_members]_vars

\* Both users are connected and their membership reads have been answered:
\* the member's connection is subscribed to the group room, the other is not.
C25_Witness ==
    /\ {"a1", "b1"} \subseteq sockets
    /\ \A t \in tasks : t.ev # "connect_rooms"
    /\ "a1" \in subscribersOf(2)
    /\ "b1" \notin subscribersOf(2)

\* C26: a (room, user) pair has one typing entry at most, in typingUsers and
\* in typing_indicators: when storage answers, the end of a typing_start for
\* an existing room leaves the pair with one row whose started_at is the
\* time of the statement and with one entry in the room's set, adding
\* nothing else, whether or not the pair had an entry before; and the end of
\* a typing_stop leaves the pair with no row and no entry.
C26_OneTypingEntry ==
    [][\A t \in tasks :
        LET u == TokenUser(t.sock)
            k == <<u, t.room>>
        IN  t \notin tasks' =>
            /\ (t.ev = "typing_start" /\ RoomExists(t.room)) =>
                 /\ DOMAIN typing_indicators' = DOMAIN typing_indicators \cup {k}
                 /\ typing_indicators'[k] = now
                 /\ \A x \in DOMAIN typing_indicators \ {k} :
                        typing_indicators'[x] = typing_indicators[x]
                 /\ \A r \in RoomIds :
                        activeTypists(r)' = IF r = t.room THEN activeTypists(r) \cup {u}
                                            ELSE activeTypists(r)
            /\ t.ev = "typing_stop" =>
                 /\ DOMAIN typing_indicators' = DOMAIN typing_indicators \ {k}
                 /\ \A r \in RoomIds :
                        activeTypists(r)' = IF r = t.room THEN activeTypists(r) \ {u}
                                            ELSE activeTypists(r)]_vars

\* After the connect and two typing events, the second a typing_start at
\* time 20, the table holds the one row of the pair, started at 20.
C26_Witness ==
    /\ eventsLeft = MaxSweepEvents - 3
    /\ tasks = {}
    /\ now = 20
    /\ DOMAIN typing_indicators = {<<"A", 1>>}
    /\ typing_indicators[<<"A", 1>>] = 20
    /\ activeTypists(1) = {"A"}

\* C27: no typing entry is leaked for a departed user: in a state where no
\* event handler is in flight, every user in the typing table has a live
\* connection.
C27_NoLeakedTyping ==
    tasks = {} =>
        \A r \in RoomIds : \A u \in activeTypists(r) :
            \E s \in sockets : TokenUser(s) = u

\* C28: the outcomes of one send_message exclude each other: the handler of
\* a message that has been persisted and broadcast as new_message (it is at
\* its activity-log write) ends without an error event to the sender,
\* whatever becomes of that write.
C28_ExclusiveOutcomes ==
    [][\A t \in tasks :
        (t.ev = "send_message" /\ t.pc = "activity" /\ t \notin tasks')
        => \A e \in emitted' : ~(e.to = t.sock /\ e.ev = "error")]_vars

\* C29: the typing table and its persisted mirror agree: whenever no
\* typing_start or typing_stop is in flight, a user is in the typing set of a
\* room exactly when typing_indicators has the row of the pair.
C29_MirrorAgrees ==
    (\A t \in tasks : t.ev \notin {"typing_start", "typing_stop"}) =>
        \A r \in RoomIds, u \in Users :
            u \in activeTypists(r) <=> <<u, r>> \in DOMAIN typing_indicators

\* C30: between any two users there is at most one friends row, whatever
\* its status and its direction.
C30_OneFriendshipPerPair ==
    \A x, y \in friends :
        ({x.user_id, x.friend_id} = {y.user_id, y.friend_id}) => x = y

====
